---- MODULE Spec2Model ----
(***************************************************************************)
(* Model of the Logitech Litra driver (src/src/driver.ts).                 *)
(*                                                                         *)
(* The driver is stateless; what changes is the transport.  The state is   *)
(* the list of descriptors HID.devices() returns (hidDevices), the handle  *)
(* the caller holds (device), the operations that handle's hid object has  *)
(* performed so far (hid: every write with its frame and every readSync    *)
(* with the frame it returned), and the most recent call of a driver       *)
(* function with its outcome (call, result).                               *)
(*                                                                         *)
(* Three specifications share the actions: Spec (sequences of calls on a   *)
(* handle, inputs at the edges of the ranges), SpecCall (the first call on *)
(* a handle, over every input of the ranges) and SpecFind (discovery over  *)
(* every list of descriptors).                                             *)
(*                                                                         *)
(* Numbers handed to the validating setters are JavaScript numbers and may *)
(* be fractional.  They are modelled in half units: the model value n      *)
(* stands for the number n/2, so 101 is 50.5 and 800 is 400.  Frame bytes  *)
(* and the values the getters return are plain integers.                   *)
(***************************************************************************)
EXTENDS Integers, Sequences, FiniteSets, TLC

VARIABLES hidDevices, device, hid, call, result

vars == <<hidDevices, device, hid, call, result>>

-----------------------------------------------------------------------------
(* Bounds of the model *)

\* Calls are taken while the handle has performed fewer operations than this.
MaxHidOps == 2
\* HID.devices() returns at most this many descriptors.
MaxDescriptors == 2
\* The exhaustive specification draws brightness from -1 .. MaxLumenInput.
MaxLumenInput == 402
\* The exhaustive specification draws temperatures from 2600 .. MaxKelvinInput.
MaxKelvinInput == 6600
\* The exhaustive specification draws percentages from -1 .. MaxPercentInput.
MaxPercentInput == 101

-----------------------------------------------------------------------------
(* utils.ts: imported by driver.ts, modelled from the specification *)

\* multiplesWithinRange(multiplesOf, startRange, endRange): ascending
\* sequence of the multiples of multiplesOf in [startRange, endRange].
multiplesWithinRange(multiplesOf, startRange, endRange) ==
    LET first == ((startRange + multiplesOf - 1) \div multiplesOf) * multiplesOf
        count == IF first > endRange THEN 0
                 ELSE (endRange - first) \div multiplesOf + 1
    IN  [k \in 1 .. count |-> first + (k - 1) * multiplesOf]

\* integerToBytes(integer): two bytes, big-endian.
integerToBytes(integer) == <<integer \div 256, integer % 256>>

\* padRight(array, length, padder): array followed by padder up to length.
\* No array driver.ts passes is longer than length.
padRight(array, length, padder) ==
    array \o [i \in 1 .. (length - Len(array)) |-> padder]

\* percentageWithinRange(percentage, startRange, endRange):
\* startRange + percentage/100 * (endRange - startRange), rounded to the
\* nearest integer, ties upwards.  percentage is in half units, the bounds
\* and the value are integers.
percentageWithinRange(percentage, startRange, endRange) ==
    (200 * startRange + percentage * (endRange - startRange) + 100) \div 200

-----------------------------------------------------------------------------
(* Constants of driver.ts *)

LitraGlow == "litra_glow"
LitraBeam == "litra_beam"
DeviceType == {LitraGlow, LitraBeam}

VENDOR_ID == 1133
PRODUCT_IDS == <<51456, 51457, 47361, 51459>>
USAGE_PAGE == 65347

MINIMUM_BRIGHTNESS_IN_LUMEN_BY_DEVICE_TYPE ==
    [t \in DeviceType |-> IF t = LitraGlow THEN 20 ELSE 30]

MAXIMUM_BRIGHTNESS_IN_LUMEN_BY_DEVICE_TYPE ==
    [t \in DeviceType |-> IF t = LitraGlow THEN 250 ELSE 400]

MULTIPLES_OF_100_BETWEEN_2700_AND_6500 == multiplesWithinRange(100, 2700, 6500)

ALLOWED_TEMPERATURES_IN_KELVIN_BY_DEVICE_TYPE ==
    [t \in DeviceType |-> MULTIPLES_OF_100_BETWEEN_2700_AND_6500]

-----------------------------------------------------------------------------
(* Representation *)

\* Number.isInteger on a half-unit value.
IsInteger(n) == n % 2 = 0
\* The half-unit value of the integer i, and back.
Num(i) == 2 * i
ToInt(n) == n \div 2

\* data[i] of a JavaScript array (0-based) held as a sequence.
At(data, i) == data[i + 1]

\* Array.prototype.includes on a sequence.
Includes(array, x) == \E i \in 1 .. Len(array) : array[i] = x

Null == [null |-> TRUE]
Undefined == "undefined"

Write(values) == [op |-> "write", data |-> values]
ReadSync(data) == [op |-> "readSync", data |-> data]

NoError == [message |-> "", min |-> 0, max |-> 0]
Returned(v) == [status |-> "returned", value |-> v, error |-> NoError]
Thrown(m, lo, hi) ==
    [status |-> "thrown", value |-> Undefined,
     error |-> [message |-> m, min |-> lo, max |-> hi]]

Call(name, arguments) == [op |-> name, args |-> arguments]


-----------------------------------------------------------------------------
(* Capability lookups *)

getMinimumBrightnessInLumenForDevice(dev) ==
    MINIMUM_BRIGHTNESS_IN_LUMEN_BY_DEVICE_TYPE[dev.type]

getMaximumBrightnessInLumenForDevice(dev) ==
    MAXIMUM_BRIGHTNESS_IN_LUMEN_BY_DEVICE_TYPE[dev.type]

getMinimumTemperatureInKelvinForDevice(dev) ==
    ALLOWED_TEMPERATURES_IN_KELVIN_BY_DEVICE_TYPE[dev.type][1]

getMaximumTemperatureInKelvinForDevice(dev) ==
    LET allowedTemperatures == ALLOWED_TEMPERATURES_IN_KELVIN_BY_DEVICE_TYPE[dev.type]
    IN  allowedTemperatures[Len(allowedTemperatures)]

getAllowedTemperaturesInKelvinForDevice(dev) ==
    ALLOWED_TEMPERATURES_IN_KELVIN_BY_DEVICE_TYPE[dev.type]

-----------------------------------------------------------------------------
(* Discovery *)

\* A faulty filter: the product id is not checked.
isLitraDeviceAnyProduct(d) ==
    /\ d.vendorId = VENDOR_ID
    /\ d.usagePage = USAGE_PAGE

isLitraDevice(d) ==
    /\ d.vendorId = VENDOR_ID
    /\ Includes(PRODUCT_IDS, d.productId)
    /\ d.usagePage = USAGE_PAGE

\* A faulty mapping: the second product id falls through with the first.
getDeviceTypeByProductIdFallThrough(productId) ==
    IF productId = PRODUCT_IDS[1] \/ productId = PRODUCT_IDS[2]
    THEN Returned(LitraGlow)
    ELSE IF productId = PRODUCT_IDS[3] \/ productId = PRODUCT_IDS[4]
         THEN Returned(LitraBeam)
         ELSE Thrown("Unknown device type", 0, 0)

\* Either the variant or the thrown string.
getDeviceTypeByProductId(productId) ==
    IF productId = PRODUCT_IDS[1] THEN Returned(LitraGlow)
    ELSE IF \/ productId = PRODUCT_IDS[2]
            \/ productId = PRODUCT_IDS[3]
            \/ productId = PRODUCT_IDS[4]
         THEN Returned(LitraBeam)
         ELSE Thrown("Unknown device type", 0, 0)

\* The handle, or the error getDeviceTypeByProductId threw.  new HID.HID(path)
\* opens the path; the handle stands for the opened hid object.
hidDeviceToDevice(hidDevice) ==
    LET type == getDeviceTypeByProductId(hidDevice.productId)
    IN  IF type.status = "thrown" THEN type
        ELSE Returned([type |-> type.value,
                       path |-> hidDevice.path,
                       serialNumber |-> hidDevice.serialNumber])

\* Array.prototype.find: the index of the first element that satisfies
\* isLitraDevice, 0 when there is none.
RECURSIVE FindIndexFrom(_, _)
FindIndexFrom(devices, i) ==
    IF i > Len(devices) THEN 0
    ELSE IF isLitraDevice(devices[i]) THEN i
         ELSE FindIndexFrom(devices, i + 1)

findDevice(devices) ==
    LET matching == FindIndexFrom(devices, 1)
    IN  IF matching # 0 THEN hidDeviceToDevice(devices[matching])
        ELSE Returned(Null)

\* Array.prototype.filter with isLitraDevice.
RECURSIVE Filter(_)
Filter(devices) ==
    IF devices = <<>> THEN <<>>
    ELSE IF isLitraDevice(Head(devices))
         THEN <<Head(devices)>> \o Filter(Tail(devices))
         ELSE Filter(Tail(devices))

\* Array.prototype.map with hidDeviceToDevice: the first throw ends the map.
RECURSIVE Map(_)
Map(devices) ==
    IF devices = <<>> THEN Returned(<<>>)
    ELSE LET first == hidDeviceToDevice(Head(devices))
         IN  IF first.status = "thrown" THEN first
             ELSE LET rest == Map(Tail(devices))
                  IN  IF rest.status = "thrown" THEN rest
                      ELSE Returned(<<first.value>> \o rest.value)

findDevices(devices) == Map(Filter(devices))

-----------------------------------------------------------------------------
(* Command operations.  Each takes the operations the handle has performed *)
(* so far (log) and gives the log after the call and the call's outcome.   *)
(* data is the frame the transport's readSync returns during the call.     *)

Outcome(log, r) == [hid |-> log, result |-> r]

turnOn(dev, log) ==
    Outcome(Append(log, Write(padRight(<<17, 255, 6, 28, 1>>, 20, 0))),
            Returned(Undefined))

turnOff(dev, log) ==
    Outcome(Append(log, Write(padRight(<<17, 255, 6, 28, 0>>, 20, 0))),
            Returned(Undefined))

isOn(dev, log, data) ==
    Outcome(log \o <<Write(padRight(<<17, 255, 6, 1>>, 20, 0)), ReadSync(data)>>,
            Returned(At(data, 4) = 1))

\* A faulty toggle: turns on whatever the power state.
toggleAlwaysOn(dev, log, data) ==
    LET on == isOn(dev, log, data)
    IN  turnOn(dev, on.hid)

toggle(dev, log, data) ==
    LET on == isOn(dev, log, data)
    IN  IF on.result.value THEN turnOff(dev, on.hid) ELSE turnOn(dev, on.hid)

\* A faulty setTemperatureInKelvin: checks the range, not the membership.
setTemperatureInKelvinRangeOnly(dev, log, temperatureInKelvin) ==
    IF ~IsInteger(temperatureInKelvin)
    THEN Outcome(log, Thrown("Provided temperature must be an integer", 0, 0))
    ELSE LET minimumTemperature == getMinimumTemperatureInKelvinForDevice(dev)
             maximumTemperature == getMaximumTemperatureInKelvinForDevice(dev)
         IN  IF \/ ToInt(temperatureInKelvin) < minimumTemperature
                \/ ToInt(temperatureInKelvin) > maximumTemperature
             THEN Outcome(log,
                          Thrown("Provided temperature must be a multiple of 100 between min and max for this device",
                                 minimumTemperature, maximumTemperature))
             ELSE Outcome(Append(log,
                                 Write(padRight(<<17, 255, 6, 156>>
                                                  \o integerToBytes(ToInt(temperatureInKelvin)),
                                                20, 0))),
                          Returned(Undefined))

\* A faulty setTemperatureInKelvin: writes the low byte first.
setTemperatureInKelvinLowByteFirst(dev, log, temperatureInKelvin) ==
    IF ~IsInteger(temperatureInKelvin)
    THEN Outcome(log, Thrown("Provided temperature must be an integer", 0, 0))
    ELSE LET minimumTemperature == getMinimumTemperatureInKelvinForDevice(dev)
             maximumTemperature == getMaximumTemperatureInKelvinForDevice(dev)
             allowedTemperatures == getAllowedTemperaturesInKelvinForDevice(dev)
             bytes == integerToBytes(ToInt(temperatureInKelvin))
         IN  IF ~Includes(allowedTemperatures, ToInt(temperatureInKelvin))
             THEN Outcome(log,
                          Thrown("Provided temperature must be a multiple of 100 between min and max for this device",
                                 minimumTemperature, maximumTemperature))
             ELSE Outcome(Append(log,
                                 Write(padRight(<<17, 255, 6, 156, bytes[2], bytes[1]>>,
                                                20, 0))),
                          Returned(Undefined))

setTemperatureInKelvin(dev, log, temperatureInKelvin) ==
    IF ~IsInteger(temperatureInKelvin)
    THEN Outcome(log, Thrown("Provided temperature must be an integer", 0, 0))
    ELSE LET minimumTemperature == getMinimumTemperatureInKelvinForDevice(dev)
             maximumTemperature == getMaximumTemperatureInKelvinForDevice(dev)
             allowedTemperatures == getAllowedTemperaturesInKelvinForDevice(dev)
         IN  IF ~Includes(allowedTemperatures, ToInt(temperatureInKelvin))
             THEN Outcome(log,
                          Thrown("Provided temperature must be a multiple of 100 between min and max for this device",
                                 minimumTemperature, maximumTemperature))
             ELSE Outcome(Append(log,
                                 Write(padRight(<<17, 255, 6, 156>>
                                                  \o integerToBytes(ToInt(temperatureInKelvin)),
                                                20, 0))),
                          Returned(Undefined))

getTemperatureInKelvin(dev, log, data) ==
    Outcome(log \o <<Write(padRight(<<17, 255, 6, 129>>, 20, 0)), ReadSync(data)>>,
            Returned(At(data, 4) * 256 + At(data, 5)))

\* A faulty setBrightnessInLumen: the bounds themselves are refused.
setBrightnessInLumenExclusive(dev, log, brightnessInLumen) ==
    IF ~IsInteger(brightnessInLumen)
    THEN Outcome(log, Thrown("Provided brightness must be an integer", 0, 0))
    ELSE LET minimumBrightness == getMinimumBrightnessInLumenForDevice(dev)
             maximumBrightness == getMaximumBrightnessInLumenForDevice(dev)
         IN  IF \/ brightnessInLumen <= Num(minimumBrightness)
                \/ brightnessInLumen >= Num(maximumBrightness)
             THEN Outcome(log,
                          Thrown("Provided brightness must be between min and max for this device",
                                 minimumBrightness, maximumBrightness))
             ELSE Outcome(Append(log,
                                 Write(padRight(<<17, 255, 6, 76>>
                                                  \o integerToBytes(ToInt(brightnessInLumen)),
                                                20, 0))),
                          Returned(Undefined))

setBrightnessInLumen(dev, log, brightnessInLumen) ==
    IF ~IsInteger(brightnessInLumen)
    THEN Outcome(log, Thrown("Provided brightness must be an integer", 0, 0))
    ELSE LET minimumBrightness == getMinimumBrightnessInLumenForDevice(dev)
             maximumBrightness == getMaximumBrightnessInLumenForDevice(dev)
         IN  IF \/ brightnessInLumen < Num(minimumBrightness)
                \/ brightnessInLumen > Num(maximumBrightness)
             THEN Outcome(log,
                          Thrown("Provided brightness must be between min and max for this device",
                                 minimumBrightness, maximumBrightness))
             ELSE Outcome(Append(log,
                                 Write(padRight(<<17, 255, 6, 76>>
                                                  \o integerToBytes(ToInt(brightnessInLumen)),
                                                20, 0))),
                          Returned(Undefined))

getBrightnessInLumen(dev, log, data) ==
    Outcome(log \o <<Write(padRight(<<17, 255, 6, 49>>, 20, 0)), ReadSync(data)>>,
            Returned(At(data, 5)))

\* A faulty scaling: from 0, not from the minimum, to the maximum.
PercentageToLumenFromZero(dev, brightnessPercentage) ==
    LET minimumBrightness == getMinimumBrightnessInLumenForDevice(dev)
        maximumBrightness == getMaximumBrightnessInLumenForDevice(dev)
    IN  IF brightnessPercentage = 0
        THEN Num(minimumBrightness)
        ELSE Num(percentageWithinRange(brightnessPercentage, 0, maximumBrightness))

\* The lumen value (in half units) setBrightnessPercentage hands on.
PercentageToLumen(dev, brightnessPercentage) ==
    LET minimumBrightness == getMinimumBrightnessInLumenForDevice(dev)
        maximumBrightness == getMaximumBrightnessInLumenForDevice(dev)
    IN  IF brightnessPercentage = 0
        THEN Num(minimumBrightness)
        ELSE Num(percentageWithinRange(brightnessPercentage,
                                       minimumBrightness, maximumBrightness))

setBrightnessPercentage(dev, log, brightnessPercentage) ==
    IF brightnessPercentage < Num(0) \/ brightnessPercentage > Num(100)
    THEN Outcome(log, Thrown("Percentage must be between 0 and 100", 0, 0))
    ELSE setBrightnessInLumen(dev, log, PercentageToLumen(dev, brightnessPercentage))

\* A faulty color frame: the payload is not padded.
ColorFrameUnpadded(red, green, blue) ==
    <<17, 255, 11, 31, 0, 0, red, green, blue, 0, 0, 0, 0, 0, 0, 0, 1>>

ColorFrame(red, green, blue) ==
    padRight(<<17, 255, 11, 31, 0, 0, red, green, blue, 0, 0, 0, 0, 0, 0, 0, 1>>, 20, 0)

\* A faulty setRGBColor: the color payload is written once.
setRGBColorOnce(dev, log, red, green, blue, data) ==
    Outcome(log \o <<Write(padRight(<<17, 255, 11, 95, 1, 1>>, 20, 0)),
                     Write(padRight(<<17, 255, 10, 75, 1>>, 20, 0)),
                     Write(padRight(<<17, 255, 10, 46, 0, 100>>, 20, 0)),
                     Write(ColorFrame(red, green, blue))>>,
            Returned(Undefined))

setRGBColor(dev, log, red, green, blue, data) ==
    Outcome(log \o <<Write(padRight(<<17, 255, 11, 95, 1, 1>>, 20, 0)),
                     Write(padRight(<<17, 255, 10, 75, 1>>, 20, 0)),
                     Write(padRight(<<17, 255, 10, 46, 0, 100>>, 20, 0)),
                     Write(ColorFrame(red, green, blue)),
                     ReadSync(data),
                     Write(ColorFrame(red, green, blue))>>,
            Returned(Undefined))

-----------------------------------------------------------------------------
(* Inputs *)

\* The i-th descriptor HID.devices() lists has a path of its own.
Path(i) == <<"path", i>>
SerialNumbers == {"2217FE0", "2217FE1"}
VendorIds == {VENDOR_ID, VENDOR_ID + 1}
\* 51458 (0xc902) is not in PRODUCT_IDS.
ProductIds == {PRODUCT_IDS[i] : i \in 1 .. Len(PRODUCT_IDS)} \cup {51458}
UsagePages == {USAGE_PAGE, 1}

Descriptors(i) ==
    [vendorId : VendorIds, productId : ProductIds, usagePage : UsagePages,
     path : {Path(i)}, serialNumber : SerialNumbers]

\* The lists HID.devices() may return: up to n descriptors.
RECURSIVE Enumerations(_)
Enumerations(n) ==
    IF n = 0 THEN {<<>>}
    ELSE LET shorter == Enumerations(n - 1)
         IN  shorter \cup {Append(ds, d) : ds \in {e \in shorter : Len(e) = n - 1},
                                           d \in Descriptors(n)}

\* A response frame; the driver reads bytes 4 and 5 only.
Response(b4, b5) == padRight(<<17, 255, 6, 0, b4, b5>>, 20, 0)

\* Inputs of the specification of call sequences: the edges of every range.
LumenInputs ==
    {Num(i) : i \in {-1, 19, 20, 29, 30, 250, 251, 255, 256, 400, 401}} \cup {101}
KelvinInputs == {Num(i) : i \in {2600, 2700, 2750, 6500, 6600}} \cup {5401}
PercentInputs == {Num(i) : i \in {-1, 0, 1, 50, 100, 101}} \cup {-1, 1, 99, 201}
ColorInputs == {0, 255}
Responses == {Response(b4, b5) : b4 \in {0, 1, 2}, b5 \in {0, 144, 250}}
DiscardedResponses == {Response(0, 0), Response(1, 144)}

\* Inputs of the specification of single calls: every value of every range,
\* whole and half.
AllLumenInputs == Num(-1) .. Num(MaxLumenInput)
AllKelvinInputs == Num(2600) .. Num(MaxKelvinInput)
AllPercentInputs == Num(-1) .. Num(MaxPercentInput)
AllColorInputs == {0, 1, 255, 256}
AllResponses == {Response(b4, b5) : b4 \in {0, 1, 2}, b5 \in 0 .. 255}
AllProductIds == 47360 .. 51460

-----------------------------------------------------------------------------
(* Actions: one call of an exported function each *)

\* Nothing has been called and the caller holds no handle.
NoCallYet ==
    /\ device = Null
    /\ hid = <<>>
    /\ call = Call("none", <<>>)
    /\ result = Returned(Undefined)

\* The caller keeps what findDevice returned; a handle found has a fresh
\* hid object.  A throw leaves the caller with what it had.
FindDevice ==
    LET r == findDevice(hidDevices)
    IN  /\ call' = Call("findDevice", <<>>)
        /\ result' = r
        /\ IF r.status = "returned"
           THEN device' = r.value /\ hid' = <<>>
           ELSE UNCHANGED <<device, hid>>
        /\ UNCHANGED hidDevices

\* The caller goes on with one of the handles findDevices returned.
FindDevices ==
    LET r == findDevices(hidDevices)
    IN  /\ call' = Call("findDevices", <<>>)
        /\ result' = r
        /\ IF r.status = "returned"
           THEN /\ hid' = <<>>
                /\ IF r.value = <<>> THEN device' = Null
                   ELSE \E i \in 1 .. Len(r.value) : device' = r.value[i]
           ELSE UNCHANGED <<device, hid>>
        /\ UNCHANGED hidDevices

\* A command operation: the handle's log and the outcome are those of o.
Command(name, arguments, o) ==
    /\ device # Null
    /\ call' = Call(name, arguments)
    /\ hid' = o.hid
    /\ result' = o.result
    /\ UNCHANGED <<hidDevices, device>>

TurnOn == Command("turnOn", <<>>, turnOn(device, hid))

TurnOff == Command("turnOff", <<>>, turnOff(device, hid))

Toggle(data) == Command("toggle", <<data>>, toggle(device, hid, data))

IsOn(data) == Command("isOn", <<data>>, isOn(device, hid, data))

SetTemperatureInKelvin(temperatureInKelvin) ==
    Command("setTemperatureInKelvin", <<temperatureInKelvin>>,
            setTemperatureInKelvin(device, hid, temperatureInKelvin))

GetTemperatureInKelvin(data) ==
    Command("getTemperatureInKelvin", <<data>>,
            getTemperatureInKelvin(device, hid, data))

SetBrightnessInLumen(brightnessInLumen) ==
    Command("setBrightnessInLumen", <<brightnessInLumen>>,
            setBrightnessInLumen(device, hid, brightnessInLumen))

GetBrightnessInLumen(data) ==
    Command("getBrightnessInLumen", <<data>>,
            getBrightnessInLumen(device, hid, data))

SetBrightnessPercentage(brightnessPercentage) ==
    Command("setBrightnessPercentage", <<brightnessPercentage>>,
            setBrightnessPercentage(device, hid, brightnessPercentage))

SetRGBColor(red, green, blue, data) ==
    Command("setRGBColor", <<red, green, blue, data>>,
            setRGBColor(device, hid, red, green, blue, data))

\* getDeviceTypeByProductId applied on its own (it is not exported).
GetDeviceTypeByProductId(productId) ==
    /\ call' = Call("getDeviceTypeByProductId", <<productId>>)
    /\ result' = getDeviceTypeByProductId(productId)
    /\ UNCHANGED <<hidDevices, device, hid>>

-----------------------------------------------------------------------------
(* Spec: one Litra is connected; sequences of calls, inputs at the edges   *)
(* of the ranges.                                                          *)

Init ==
    /\ hidDevices \in {<<d>> : d \in {x \in Descriptors(1) : isLitraDevice(x)}}
    /\ NoCallYet

More == Len(hid) < MaxHidOps

Next ==
    \/ FindDevice
    \/ FindDevices
    \/ More /\ TurnOn
    \/ More /\ TurnOff
    \/ More /\ \E data \in Responses : Toggle(data)
    \/ More /\ \E data \in Responses : IsOn(data)
    \/ More /\ \E t \in KelvinInputs : SetTemperatureInKelvin(t)
    \/ More /\ \E data \in Responses : GetTemperatureInKelvin(data)
    \/ More /\ \E b \in LumenInputs : SetBrightnessInLumen(b)
    \/ More /\ \E data \in Responses : GetBrightnessInLumen(data)
    \/ More /\ \E p \in PercentInputs : SetBrightnessPercentage(p)
    \/ More /\ \E r \in ColorInputs, g \in ColorInputs, b \in ColorInputs,
                  data \in DiscardedResponses : SetRGBColor(r, g, b, data)

Spec == Init /\ [][Next]_vars

-----------------------------------------------------------------------------
(* SpecCall: one Litra is connected; the first call on the handle          *)
(* findDevice returned, over every input.                                  *)

Found == call.op = "findDevice"

NextCall ==
    \/ call.op = "none" /\ FindDevice
    \/ call.op = "none"
         /\ \E productId \in AllProductIds : GetDeviceTypeByProductId(productId)
    \/ Found /\ TurnOn
    \/ Found /\ TurnOff
    \/ Found /\ \E data \in AllResponses : Toggle(data)
    \/ Found /\ \E data \in AllResponses : IsOn(data)
    \/ Found /\ \E t \in AllKelvinInputs : SetTemperatureInKelvin(t)
    \/ Found /\ \E data \in AllResponses : GetTemperatureInKelvin(data)
    \/ Found /\ \E b \in AllLumenInputs : SetBrightnessInLumen(b)
    \/ Found /\ \E data \in AllResponses : GetBrightnessInLumen(data)
    \/ Found /\ \E p \in AllPercentInputs : SetBrightnessPercentage(p)
    \/ Found /\ \E r \in AllColorInputs, g \in AllColorInputs, b \in AllColorInputs,
                   data \in DiscardedResponses : SetRGBColor(r, g, b, data)

SpecCall == Init /\ [][NextCall]_vars

-----------------------------------------------------------------------------
(* SpecFind: discovery over every list HID.devices() may return *)

InitFind ==
    /\ hidDevices \in Enumerations(MaxDescriptors)
    /\ NoCallYet

NextFind ==
    \/ FindDevice
    \/ FindDevices

SpecFind == InitFind /\ [][NextFind]_vars

-----------------------------------------------------------------------------
(* Properties of call sequences (Spec) *)

\* The first n bytes of a frame.
Prefix(frame, n) == SubSeq(frame, 1, n)
IsWrite(e) == e.op = "write"
IsRead(e) == e.op = "readSync"
\* What the handle has done since the step began.
Added == SubSeq(hid', Len(hid) + 1, Len(hid'))
Extended == Len(hid') >= Len(hid) /\ SubSeq(hid', 1, Len(hid)) = hid

\* C1: one call of toggle adds to the handle exactly a write of the
\* query-power frame (group 0x06, opcode 0x01), a readSync, and one more
\* write: the turn-off frame when byte 4 of the response is 1, the turn-on
\* frame otherwise.
ToggleSequence ==
    [][call'.op = "toggle" =>
         /\ Extended
         /\ Len(Added) = 3
         /\ IsWrite(Added[1]) /\ Prefix(Added[1].data, 4) = <<17, 255, 6, 1>>
         /\ IsRead(Added[2]) /\ Added[2].data = call'.args[1]
         /\ IsWrite(Added[3])
         /\ Added[3].data[1] = 17 /\ Added[3].data[2] = 255
         /\ Added[3].data[3] = 6 /\ Added[3].data[4] = 28
         /\ Added[3].data[5] = (IF At(call'.args[1], 4) = 1 THEN 0 ELSE 1)]_vars

\* Toggle has run on a handle that had already written, with a response
\* that says on, and has written the turn-off frame.
ToggleOffReached ==
    /\ call.op = "toggle"
    /\ Len(hid) > 3
    /\ At(call.args[1], 4) = 1
    /\ At(hid[Len(hid)].data, 4) = 0

\* C10: one call of setRGBColor adds to the handle exactly six operations:
\* writes of the enable-extended-mode, mode-select, calibration and
\* color-payload frames, a readSync, and a write of the same color-payload
\* frame again.
RGBSequence ==
    [][call'.op = "setRGBColor" =>
         /\ Extended
         /\ Len(Added) = 6
         /\ \A i \in {1, 2, 3, 4, 6} : IsWrite(Added[i])
         /\ Prefix(Added[1].data, 4) = <<17, 255, 11, 95>>
         /\ Prefix(Added[2].data, 4) = <<17, 255, 10, 75>>
         /\ Prefix(Added[3].data, 4) = <<17, 255, 10, 46>>
         /\ Prefix(Added[4].data, 4) = <<17, 255, 11, 31>>
         /\ At(Added[4].data, 6) = call'.args[1]
         /\ At(Added[4].data, 7) = call'.args[2]
         /\ At(Added[4].data, 8) = call'.args[3]
         /\ IsRead(Added[5]) /\ Added[5].data = call'.args[4]
         /\ Added[6] = Added[4]
         /\ result'.status = "returned" /\ result'.value = Undefined]_vars

\* setRGBColor has run on a Glow handle that had already written.
RGBReached ==
    /\ call.op = "setRGBColor"
    /\ device.type = LitraGlow
    /\ call.args[1] = 255 /\ call.args[2] = 0 /\ call.args[3] = 255
    /\ Len(hid) > 6

\* The index of the last parameter byte of a frame, by group and opcode;
\* 19 for a frame of no known command.
LastParameter(frame) ==
    LET c == <<At(frame, 2), At(frame, 3)>>
    IN  CASE c = <<6, 28>> -> 4
          [] c = <<6, 1>> -> 3
          [] c = <<6, 156>> -> 5
          [] c = <<6, 129>> -> 3
          [] c = <<6, 76>> -> 5
          [] c = <<6, 49>> -> 3
          [] c = <<11, 95>> -> 5
          [] c = <<10, 75>> -> 4
          [] c = <<10, 46>> -> 5
          [] c = <<11, 31>> -> 16
          [] OTHER -> 19

\* C6: every frame written to the transport is 20 bytes long, begins
\* 0x11 0xff, and is zero after its last parameter byte.
FramesWellFormed ==
    \A i \in 1 .. Len(hid) :
        IsWrite(hid[i]) =>
            LET frame == hid[i].data
            IN  /\ Len(frame) = 20
                /\ At(frame, 0) = 17
                /\ At(frame, 1) = 255
                /\ LastParameter(frame) < 19
                /\ \A j \in (LastParameter(frame) + 1) .. 19 : At(frame, j) = 0

\* A handle that has written a color-payload frame and a brightness frame.
FramesReached ==
    /\ \E i \in 1 .. Len(hid) : IsWrite(hid[i]) /\ Prefix(hid[i].data, 4) = <<17, 255, 11, 31>>
    /\ \E i \in 1 .. Len(hid) : IsWrite(hid[i]) /\ Prefix(hid[i].data, 4) = <<17, 255, 6, 76>>

\* The ranges and the temperatures the claims name.
MinLumen(type) == IF type = LitraGlow THEN 20 ELSE 30
MaxLumen(type) == IF type = LitraGlow THEN 250 ELSE 400
AllowedKelvin == {2700 + 100 * k : k \in 0 .. 38}

\* An input that fails validation (in half units).
FailsValidation(c, type) ==
    \/ /\ c.op = "setTemperatureInKelvin"
       /\ ~IsInteger(c.args[1]) \/ c.args[1] \notin {2 * t : t \in AllowedKelvin}
    \/ /\ c.op = "setBrightnessInLumen"
       /\ \/ ~IsInteger(c.args[1])
          \/ c.args[1] < 2 * MinLumen(type)
          \/ c.args[1] > 2 * MaxLumen(type)
    \/ /\ c.op = "setBrightnessPercentage"
       /\ c.args[1] < 0 \/ c.args[1] > 200

\* C2: a setter whose input fails validation throws and the handle has
\* written and read nothing; no call that throws has written or read.
NoWriteOnInvalidInput ==
    [][/\ FailsValidation(call', device.type) =>
            (result'.status = "thrown" /\ hid' = hid)
       /\ result'.status = "thrown" => hid' = hid]_vars

\* setBrightnessInLumen has thrown for 50.5 on a handle that had already
\* written.
InvalidInputReached ==
    /\ call.op = "setBrightnessInLumen"
    /\ result.status = "thrown"
    /\ call.args[1] = 101
    /\ Len(hid) > 0

\* C7: when the write before the brightness query is the frame
\* setBrightnessInLumen writes for a legal b, and the response carries that
\* frame's bytes 4 and 5, getBrightnessInLumen returns b.
BrightnessRoundTrip ==
    (call.op = "getBrightnessInLumen" /\ Len(hid) >= 3) =>
        LET written == hid[Len(hid) - 2]
            data == hid[Len(hid)].data
        IN  \A b \in MinLumen(device.type) .. MaxLumen(device.type) :
                ( /\ IsWrite(written)
                  /\ Prefix(written.data, 4) = <<17, 255, 6, 76>>
                  /\ At(written.data, 4) * 256 + At(written.data, 5) = b
                  /\ At(data, 4) = At(written.data, 4)
                  /\ At(data, 5) = At(written.data, 5) )
                => result.value = b


-----------------------------------------------------------------------------
(* Properties of single calls over every input (SpecCall) *)

\* The value the big-endian bytes 4 and 5 of a frame carry.
Carried(frame) == At(frame, 4) * 256 + At(frame, 5)

\* C3: for every percentage in [0, 100] setBrightnessPercentage succeeds
\* and the lumen value in the frame it writes lies in the variant's range;
\* 0 gives exactly the minimum and 100 exactly the maximum.
PercentageInRange ==
    (call.op = "setBrightnessPercentage" /\ call.args[1] >= 0 /\ call.args[1] <= 200) =>
        /\ result.status = "returned"
        /\ Len(hid) = 1
        /\ IsWrite(hid[1])
        /\ Prefix(hid[1].data, 4) = <<17, 255, 6, 76>>
        /\ Carried(hid[1].data) >= MinLumen(device.type)
        /\ Carried(hid[1].data) <= MaxLumen(device.type)
        /\ (call.args[1] = 0 => Carried(hid[1].data) = MinLumen(device.type))
        /\ (call.args[1] = 200 => Carried(hid[1].data) = MaxLumen(device.type))

\* setBrightnessPercentage has run with 100 on a Beam and written 400.
PercentageReached ==
    /\ call.op = "setBrightnessPercentage"
    /\ call.args[1] = 200
    /\ device.type = LitraBeam
    /\ Len(hid) = 1
    /\ Carried(hid[1].data) = 400

\* C4: for every integer t, setTemperatureInKelvin throws the range error
\* exactly when t is not a multiple of 100 from 2700 to 6500; for such a
\* multiple it writes one frame with opcode 0x9c whose bytes 4 and 5 are
\* t div 256 and t mod 256.
TemperatureAccepted ==
    (call.op = "setTemperatureInKelvin" /\ IsInteger(call.args[1])) =>
        LET t == call.args[1] \div 2
        IN  IF t \in AllowedKelvin
            THEN /\ result.status = "returned"
                 /\ Len(hid) = 1
                 /\ IsWrite(hid[1])
                 /\ Prefix(hid[1].data, 4) = <<17, 255, 6, 156>>
                 /\ At(hid[1].data, 4) = t \div 256
                 /\ At(hid[1].data, 5) = t % 256
            ELSE /\ result.status = "thrown"
                 /\ result.error.message =
                      "Provided temperature must be a multiple of 100 between min and max for this device"
                 /\ result.error.min = 2700
                 /\ result.error.max = 6500
                 /\ hid = <<>>

\* setTemperatureInKelvin has written the frame of 6500.
TemperatureReached ==
    /\ call.op = "setTemperatureInKelvin"
    /\ call.args[1] = 13000
    /\ Len(hid) = 1
    /\ Carried(hid[1].data) = 6500

\* C5: for every integer b, setBrightnessInLumen succeeds exactly when
\* min(v) <= b <= max(v), both bounds included; it fails for every
\* non-integer.
BrightnessAccepted ==
    call.op = "setBrightnessInLumen" =>
        LET b == call.args[1]
        IN  (result.status = "returned") <=>
                /\ IsInteger(b)
                /\ 2 * MinLumen(device.type) <= b
                /\ b <= 2 * MaxLumen(device.type)

\* setBrightnessInLumen has succeeded at exactly the maximum of a Beam.
BrightnessReached ==
    /\ call.op = "setBrightnessInLumen"
    /\ device.type = LitraBeam
    /\ call.args[1] = 800
    /\ result.status = "returned"
    /\ Len(hid) = 1

\* C9: getDeviceTypeByProductId maps 0xc900 to Glow, each of 0xc901, 0xb901
\* and 0xc903 to Beam, and throws for every other product id.
ProductIdMapping ==
    call.op = "getDeviceTypeByProductId" =>
        LET productId == call.args[1]
        IN  IF productId = 51456
            THEN result.status = "returned" /\ result.value = "litra_glow"
            ELSE IF productId \in {51457, 47361, 51459}
                 THEN result.status = "returned" /\ result.value = "litra_beam"
                 ELSE /\ result.status = "thrown"
                      /\ result.error.message = "Unknown device type"

\* getDeviceTypeByProductId has been applied to 0xb901.
ProductIdReached ==
    /\ call.op = "getDeviceTypeByProductId"
    /\ call.args[1] = 47361
    /\ result.status = "returned"

-----------------------------------------------------------------------------
(* Properties of discovery (SpecFind) *)

\* A descriptor of the family: vendor 0x046d, a product id of the
\* allow-list, usage page 0xff43.
Matches(d) ==
    /\ d.vendorId = 1133
    /\ d.productId \in {51456, 51457, 47361, 51459}
    /\ d.usagePage = 65347

\* C8: findDevice never throws; it returns null when no descriptor matches
\* and otherwise a handle built from the first matching descriptor.  Neither
\* findDevice nor findDevices throws "Unknown device type".
FindDeviceTotal ==
    /\ call.op \in {"findDevice", "findDevices"} => result.status = "returned"
    /\ call.op = "findDevice" =>
        IF \A i \in 1 .. Len(hidDevices) : ~Matches(hidDevices[i])
        THEN result.value = Null /\ device = Null
        ELSE LET first == CHOOSE i \in 1 .. Len(hidDevices) :
                              /\ Matches(hidDevices[i])
                              /\ \A j \in 1 .. (i - 1) : ~Matches(hidDevices[j])
             IN  /\ result.value # Null
                 /\ device = result.value
                 /\ result.value.path = hidDevices[first].path
                 /\ result.value.serialNumber = hidDevices[first].serialNumber
                 /\ result.value.type =
                      (IF hidDevices[first].productId = 51456
                       THEN "litra_glow" ELSE "litra_beam")

\* findDevice has returned the first of two matching descriptors, a Glow
\* listed before a Beam.
FindDeviceReached ==
    /\ call.op = "findDevice"
    /\ Len(hidDevices) = 2
    /\ Matches(hidDevices[1]) /\ Matches(hidDevices[2])
    /\ hidDevices[1].productId = 51456 /\ hidDevices[2].productId = 51459
    /\ result.value # Null
    /\ result.value.path = <<"path", 1>>

====
